---------------------------- MODULE Spec2Model ----------------------------
(***************************************************************************)
(* Model of the compliance assistant:                                      *)
(*   PDFReader.extract_text_from_pdf, split_into_sentences (pdf_reader.py) *)
(*   ObligationFinder.contains_obligation_keyword, extract_obligations,    *)
(*   filter_obligations, process_sentences (obligation_finder.py)          *)
(*   ExcelExporter.create_obligation_dataframe, generate_output_filename,  *)
(*   export_to_excel, create_summary_report (excel_exporter.py)            *)
(*   ComplianceAssistant.process_document (main.py)                        *)
(* A Python str is a sequence of characters; a character is a one-letter   *)
(* TLA+ string.  The non-ASCII letters E-acute are the atoms "U+00C9"      *)
(* (upper case) and "U+00E9" (lower case).                                 *)
(***************************************************************************)
EXTENDS Integers, Sequences, FiniteSets, TLC

VARIABLES pc, text, potential_sentences, sentences, sentence, found,
          obligations, min_length, filtered,
          calls,              \* the methods called so far, in order
          pdf_path, output_dir, source_document, output_path, excel_path,
          rows, summary, raised, result,
          fs,                 \* what the file system holds at each PDF path
          files,              \* the output files written so far
          clock               \* the time datetime.now() last returned

vars == <<pc, text, potential_sentences, sentences, sentence, found,
          obligations, min_length, filtered, calls, pdf_path, output_dir,
          source_document, output_path, excel_path, rows, summary, raised,
          result, fs, files, clock>>

\* the variables of process_document and of the exporter, calls apart
document_vars == <<pdf_path, output_dir, source_document, output_path, excel_path,
                   rows, summary, raised, result, fs, files, clock>>

(***************************************************************************)
(* Bounds of the model.                                                    *)
(***************************************************************************)
MaxTextTokens == 4
MaxSentenceTokens == 3
AltMinLength == 16
MaxClock == 3
TicksPerSecond == 2
MaxCalls == 2
MaxChunks == 3

(***************************************************************************)
(* Characters and the str methods the code uses.                           *)
(***************************************************************************)
UpperCase == <<"A","B","C","D","E","F","G","H","I","J","K","L","M",
               "N","O","P","Q","R","S","T","U","V","W","X","Y","Z","U+00C9">>

LowerCase == <<"a","b","c","d","e","f","g","h","i","j","k","l","m",
               "n","o","p","q","r","s","t","u","v","w","x","y","z","U+00E9">>

AsciiUpper == {UpperCase[i] : i \in 1..26}

UpperLetters == {UpperCase[i] : i \in 1..Len(UpperCase)}

LowerLetters == {LowerCase[i] : i \in 1..Len(LowerCase)}

Digits == {"0","1","2","3","4","5","6","7","8","9"}

Whitespace == {" ", "\n", "\t"}

\* c.isalpha()
isalpha(c) == c \in UpperLetters \cup LowerLetters

\* c.isspace(), the class \s of re
isspace(c) == c \in Whitespace

\* the class \w of re: letters, digits and the underscore
IsWordChar(c) == isalpha(c) \/ c \in Digits \/ c = "_"

\* str.lower() of one character
lower_char(c) ==
    IF c \in UpperLetters
    THEN LowerCase[CHOOSE i \in 1..Len(UpperCase) : UpperCase[i] = c]
    ELSE c

\* str.lower()
lower(s) == [i \in 1..Len(s) |-> lower_char(s[i])]

\* str.isupper(): no lower-case letter and at least one upper-case letter
isupper(s) ==
    /\ \A i \in 1..Len(s) : s[i] \notin LowerLetters
    /\ \E i \in 1..Len(s) : s[i] \in UpperLetters

\* drops one whitespace character at most from each end
strip_once(s) ==
    LET a == IF s # <<>> /\ isspace(Head(s)) THEN Tail(s) ELSE s
    IN  IF a # <<>> /\ isspace(a[Len(a)]) THEN SubSeq(a, 1, Len(a) - 1) ELSE a

\* str.strip(): drop the leading and the trailing whitespace
strip(s) ==
    LET keep == {i \in 1..Len(s) : ~isspace(s[i])}
    IN  IF keep = {} THEN <<>>
        ELSE LET lo == CHOOSE i \in keep : \A j \in keep : i <= j
                 hi == CHOOSE i \in keep : \A j \in keep : j <= i
             IN  SubSeq(s, lo, hi)

\* sep.join(parts)
RECURSIVE join(_, _)
join(sep, parts) ==
    IF parts = <<>> THEN <<>>
    ELSE IF Len(parts) = 1 THEN parts[1]
    ELSE parts[1] \o sep \o join(sep, Tail(parts))

(***************************************************************************)
(* ObligationFinder                                                        *)
(***************************************************************************)
OBLIGATION_KEYWORDS ==
    << <<"m","u","s","t">>,
       <<"s","h","a","l","l">>,
       <<"r","e","q","u","i","r","e","d">>,
       <<"m","a","n","d","a","t","o","r","y">> >>

\* a search without the \b anchors
WordBoundary_unanchored(s, p) == TRUE

\* \b at offset p of s (between s[p] and s[p+1]): exactly one side is a word character
WordBoundary(s, p) ==
    LET before == p >= 1 /\ IsWordChar(s[p])
        after  == p < Len(s) /\ IsWordChar(s[p + 1])
    IN  before # after

\* re.search(r'\b' + re.escape(keyword) + r'\b', s)
keyword_search(keyword, s) ==
    \E p \in 0..(Len(s) - Len(keyword)) :
        /\ WordBoundary(s, p)
        /\ SubSeq(s, p + 1, p + Len(keyword)) = keyword
        /\ WordBoundary(s, p + Len(keyword))

contains_obligation_keyword(s) ==
    LET sentence_lower == lower(s)
    IN  \E k \in 1..Len(OBLIGATION_KEYWORDS) :
            keyword_search(OBLIGATION_KEYWORDS[k], sentence_lower)

\* the keywords present, in the reverse of the list order
found_keywords_reversed(s) ==
    LET sentence_lower == lower(s)
        Present(keyword) == keyword_search(keyword, sentence_lower)
        found_in_order == SelectSeq(OBLIGATION_KEYWORDS, Present)
    IN  [i \in 1..Len(found_in_order) |-> found_in_order[Len(found_in_order) + 1 - i]]

\* the inner loop of extract_obligations: the keywords present, in list order
found_keywords(s) ==
    LET sentence_lower == lower(s)
        Present(keyword) == keyword_search(keyword, sentence_lower)
    IN  SelectSeq(OBLIGATION_KEYWORDS, Present)

KeywordSeparator == <<",", " ">>

obligation_of(s) ==
    [text |-> strip(s), keywords |-> join(KeywordSeparator, found_keywords(s))]

\* obligations.insert(0, ...): the records in reverse order
RECURSIVE extract_obligations_reversed(_)
extract_obligations_reversed(ss) ==
    IF ss = <<>> THEN <<>>
    ELSE IF contains_obligation_keyword(Head(ss))
         THEN extract_obligations_reversed(Tail(ss)) \o <<obligation_of(Head(ss))>>
         ELSE extract_obligations_reversed(Tail(ss))

RECURSIVE extract_obligations(_)
extract_obligations(ss) ==
    IF ss = <<>> THEN <<>>
    ELSE IF contains_obligation_keyword(Head(ss))
         THEN <<obligation_of(Head(ss))>> \o extract_obligations(Tail(ss))
         ELSE extract_obligations(Tail(ss))

DefaultMinLength == 20

AllCapsLimit == 100

\* len(text) <= min_length
too_short_or_equal(t, minlen) == Len(t) <= minlen

too_short(t, minlen) == Len(t) < minlen

\* text.isupper() alone
all_caps_any_length(t) == isupper(t)

all_caps(t) == isupper(t) /\ Len(t) < AllCapsLimit

alpha_chars(t) == Cardinality({i \in 1..Len(t) : isalpha(t[i])})

\* alpha_chars <= len(text) * 0.5
non_alphabetic_or_half(t) == 2 * alpha_chars(t) <= Len(t)

\* alpha_chars < len(text) * 0.5
non_alphabetic(t) == 2 * alpha_chars(t) < Len(t)

keeps(obligation, minlen) ==
    /\ ~too_short(obligation.text, minlen)
    /\ ~all_caps(obligation.text)
    /\ ~non_alphabetic(obligation.text)

\* remembers the records already kept and drops a record seen before
filter_obligations_remembering(obs, minlen) ==
    LET Kept(obligation) == keeps(obligation, minlen)
        all == SelectSeq(obs, Kept)
        First(i) == \A j \in 1..(i - 1) : all[j] # all[i]
        RECURSIVE Pick(_)
        Pick(i) == IF i > Len(all) THEN <<>>
                   ELSE IF First(i) THEN <<all[i]>> \o Pick(i + 1) ELSE Pick(i + 1)
    IN  Pick(1)

filter_obligations(obs, minlen) ==
    LET Kept(obligation) == keeps(obligation, minlen)
    IN  SelectSeq(obs, Kept)

\* extract_obligations alone
process_sentences_unfiltered(ss) == extract_obligations(ss)

process_sentences(ss) ==
    filter_obligations(extract_obligations(ss), DefaultMinLength)

(***************************************************************************)
(* PDFReader.split_into_sentences                                          *)
(***************************************************************************)
\* every run of whitespace becomes its own first character
RECURSIVE collapse_whitespace_keeping(_)
collapse_whitespace_keeping(s) ==
    IF s = <<>> THEN <<>>
    ELSE IF isspace(s[1])
         THEN LET rest == {i \in 2..Len(s) : ~isspace(s[i])}
              IN  IF rest = {} THEN <<s[1]>>
                  ELSE LET k == CHOOSE i \in rest : \A j \in rest : i <= j
                       IN  <<s[1]>> \o collapse_whitespace_keeping(SubSeq(s, k, Len(s)))
         ELSE <<s[1]>> \o collapse_whitespace_keeping(Tail(s))

\* re.sub(r'\s+', ' ', s): every run of whitespace becomes one space
RECURSIVE collapse_whitespace(_)
collapse_whitespace(s) ==
    IF s = <<>> THEN <<>>
    ELSE IF isspace(s[1])
         THEN LET rest == {i \in 2..Len(s) : ~isspace(s[i])}
              IN  IF rest = {} THEN <<" ">>
                  ELSE LET k == CHOOSE i \in rest : \A j \in rest : i <= j
                       IN  <<" ">> \o collapse_whitespace(SubSeq(s, k, Len(s)))
         ELSE <<s[1]>> \o collapse_whitespace(Tail(s))

cleaned_text(t) == collapse_whitespace(strip(t))

\* the characters of [.!]
SentenceEnd_without_question == {".", "!"}

\* the characters of [.!?]
SentenceEnd == {".", "!", "?"}

\* last index of the run of whitespace of s that starts at i
RunEnd(s, i) ==
    CHOOSE j \in i..Len(s) :
        /\ \A k \in i..j : isspace(s[k])
        /\ j = Len(s) \/ ~isspace(s[j + 1])

\* sentence_pattern = (?<=[.!?])\s+(?=[A-Z]) matches s[i..RunEnd(s, i)]
sentence_pattern(s, i) ==
    /\ i >= 2 /\ i <= Len(s)
    /\ s[i - 1] \in SentenceEnd
    /\ isspace(s[i])
    /\ RunEnd(s, i) < Len(s)
    /\ s[RunEnd(s, i) + 1] \in AsciiUpper

\* a split that takes the terminal mark with the whitespace
RECURSIVE re_split_consuming_mark(_)
re_split_consuming_mark(s) ==
    LET starts == {i \in 2..Len(s) : s[i - 1] \in {".", "!", "?"}
                                       /\ isspace(s[i])
                                       /\ i < Len(s)
                                       /\ s[i + 1] \in AsciiUpper}
    IN  IF starts = {} THEN <<s>>
        ELSE LET i == CHOOSE a \in starts : \A b \in starts : a <= b
             IN  <<SubSeq(s, 1, i - 2)>>
                     \o re_split_consuming_mark(SubSeq(s, i + 1, Len(s)))

\* re.split(sentence_pattern, s)
RECURSIVE re_split(_)
re_split(s) ==
    LET starts == {i \in 1..Len(s) : sentence_pattern(s, i)}
    IN  IF starts = {} THEN <<s>>
        ELSE LET i == CHOOSE a \in starts : \A b \in starts : a <= b
             IN  <<SubSeq(s, 1, i - 1)>> \o re_split(SubSeq(s, RunEnd(s, i) + 1, Len(s)))

MinSentenceLength == 10

\* sentence and len(sentence) >= 10
long_enough_or_ten(s) == s # <<>> /\ Len(s) >= MinSentenceLength

\* sentence and len(sentence) > 10
long_enough(s) == s # <<>> /\ Len(s) > MinSentenceLength

\* sentences.append(sentence.rstrip('.!?')): the long ones without their
\* terminal marks
cleaned_sentences_without_mark(parts) ==
    LET stripped == [i \in 1..Len(parts) |-> strip(parts[i])]
        kept == SelectSeq(stripped, long_enough)
        Cut(s) == LET body == {i \in 1..Len(s) : s[i] \notin SentenceEnd}
                  IN  IF body = {} THEN <<>>
                      ELSE SubSeq(s, 1, CHOOSE i \in body : \A j \in body : j <= i)
    IN  [i \in 1..Len(kept) |-> Cut(kept[i])]

\* the loop over the split's parts: strip each, keep the long ones
cleaned_sentences(parts) ==
    LET stripped == [i \in 1..Len(parts) |-> strip(parts[i])]
    IN  SelectSeq(stripped, long_enough)

split_into_sentences(t) == cleaned_sentences(re_split(cleaned_text(t)))

(***************************************************************************)
(* Inputs: strings put together from at most a bounded number of tokens.   *)
(***************************************************************************)
RECURSIVE Concat(_)
Concat(ts) == IF ts = <<>> THEN <<>> ELSE Head(ts) \o Concat(Tail(ts))

TokenSeqs(T, n) == UNION {[1..k -> T] : k \in 0..n}

\* the empty token ends one string of a list and starts the next
Break == <<>>

RECURSIVE Group(_)
Group(ts) ==
    LET breaks == {i \in 1..Len(ts) : ts[i] = Break}
    IN  IF breaks = {} THEN <<Concat(ts)>>
        ELSE LET k == CHOOSE i \in breaks : \A j \in breaks : i <= j
             IN  <<Concat(SubSeq(ts, 1, k - 1))>> \o Group(SubSeq(ts, k + 1, Len(ts)))

Caps27 == <<"T","H","E"," ","O","P","E","R","A","T","O","R"," ","O","F"," ","T","H","E"," ","S","Y","S","T","E","M"," ">>

Caps95 == Caps27 \o Caps27 \o Caps27 \o <<"I","N"," ","A","L","L"," ","C","A","S","E","S",","," ">>

KeywordTokens ==
    { <<"m","u","s","t">>, <<"s","h","a","l","l">>, <<"r","e","q","u","i","r","e","d">>, <<"m","a","n","d","a","t","o","r","y">>, <<"M","U","S","T">>, <<"M","u","s","t">>,
      <<"m","u","s","t","a","r","d">>, <<"r","e","q","u","i","r","e","m","e","n","t","s">>,
      <<" ">>, <<".">>, <<"x">>, <<"1">>, <<"_">> }

ClassifyTokens ==
    { <<"m","u","s","t">>, <<"s","h","a","l","l">>, <<"r","e","q","u","i","r","e","d">>, <<"m","a","n","d","a","t","o","r","y">>, <<"M","U","S","T">>,
      <<" ">>, <<".">>, <<"x">>,
      <<"T","h","e"," ","s","y","s","t","e","m"," ">>,
      <<"1","2","3","-","4","5","6","-","7","8","9"," ">>,
      <<" ","b","e"," ","u","p","d","a","t","e","d">>,
      <<"U","s","e","r","s"," ","m","u","s","t"," ","c","o","m","p","l","y"," ","w","i","t","h"," ","a","l","l"," ","s","e","c","u","r","i","t","y"," ","p","o","l","i","c","i","e","s",".">>,
      <<"T","h","e"," ","s","y","s","t","e","m"," ","s","h","a","l","l"," ","e","n","c","r","y","p","t"," ","a","l","l"," ","d","a","t","a"," ","i","n"," ","t","r","a","n","s","i","t",".">>,
      Caps27 }

\* all-caps texts of 100 characters, more and fewer
CapsTokens ==
    { Caps95, Caps27, <<"M","U","S","T">>, <<"m","u","s","t">>, <<" ">>, <<".">>, <<"1">> }

TextTokens ==
    { <<"U","s","e","r","s"," ","m","u","s","t">>, <<"S","t","a","f","f"," ","s","h","a","l","l",".">>,
      <<".">>, <<"!">>, <<"?">>, <<" ">>, <<"\n">>, <<"x">>, <<"U+00C9">> }

Texts == {Concat(ts) : ts \in TokenSeqs(TextTokens, MaxTextTokens)}

KeywordSentences == {Concat(ts) : ts \in TokenSeqs(KeywordTokens, MaxSentenceTokens)}

SentenceLists ==
    {<<>>} \cup {Group(ts) : ts \in TokenSeqs(ClassifyTokens \cup {Break}, MaxSentenceTokens)}

CapsSentenceLists ==
    {Group(ts) : ts \in TokenSeqs(CapsTokens \cup {Break}, MaxSentenceTokens)}

\* records as a caller of filter_obligations writes them (test_filter_obligations)
record_of(s) == [text |-> s, keywords |-> <<"m","u","s","t">>]

ObligationLists == {[i \in 1..Len(ss) |-> record_of(ss[i])] : ss \in SentenceLists}

MinLengths == {DefaultMinLength, AltMinLength}

(***************************************************************************)
(* PDFReader.extract_text_from_pdf                                         *)
(***************************************************************************)
\* an exception: its class, str(e), and the exception it was raised from
exception(type, message, cause) ==
    [type |-> type, message |-> message, cause |-> cause]

\* what open(pdf_path, 'rb') raises when no file is at the path
NoSuchFile(path) ==
    exception("FileNotFoundError",
              <<"[","E","r","r","n","o"," ","2","]"," ","N","o"," ","s","u","c","h"," ","f","i","l","e"," ","o","r"," ","d","i","r","e","c","t","o","r","y",":"," ","'">> \o path \o <<"'">>,
              <<>>)

\* what pypdf.PdfReader raises on a file that is not a PDF
PdfReadError ==
    exception("PdfReadError", <<"E","O","F"," ","m","a","r","k","e","r"," ","n","o","t"," ","f","o","u","n","d">>, <<>>)

NotFoundPrefix == <<"P","D","F"," ","f","i","l","e"," ","n","o","t"," ","f","o","u","n","d",":"," ">>

ReadingErrorPrefix == <<"E","r","r","o","r"," ","r","e","a","d","i","n","g"," ","P","D","F"," ","f","i","l","e",":"," ">>

\* text += page_text + "\n", page after page
RECURSIVE page_texts(_)
page_texts(pages) ==
    IF pages = <<>> THEN <<>>
    ELSE Head(pages) \o <<"\n">> \o page_texts(Tail(pages))

\* the text returned, or the exception raised, for what the path holds
extract_text_from_pdf(path, held) ==
    IF held.kind = "missing"
    THEN [text |-> <<>>,
          raised |-> <<exception("FileNotFoundError", NotFoundPrefix \o path,
                                 <<NoSuchFile(path)>>)>>]
    ELSE IF held.kind = "corrupt"
    THEN [text |-> <<>>,
          raised |-> <<exception("Exception",
                                 ReadingErrorPrefix \o PdfReadError.message,
                                 <<PdfReadError>>)>>]
    ELSE [text |-> strip(page_texts(held.pages)), raised |-> <<>>]

(***************************************************************************)
(* ExcelExporter                                                           *)
(***************************************************************************)
DigitChars == <<"0","1","2","3","4","5","6","7","8","9">>

\* str(n) of a natural number
RECURSIVE Decimal(_)
Decimal(n) ==
    IF n < 10 THEN <<DigitChars[n + 1]>>
    ELSE Decimal(n \div 10) \o <<DigitChars[(n % 10) + 1]>>

\* the format specification 0<width>d: zeros on the left up to the width
RECURSIVE zero_fill(_, _)
zero_fill(s, width) == IF Len(s) >= width THEN s ELSE zero_fill(<<"0">> \o s, width)

IdWidth == 3

IdPrefix == <<"O","B","L","-">>

\* f'OBL-{i:02d}'
obligation_id_two_digits(i) == IdPrefix \o zero_fill(Decimal(i), 2)

\* f'OBL-{i:03d}'
obligation_id(i) == IdPrefix \o zero_fill(Decimal(i), IdWidth)

NotStarted == <<"N","o","t"," ","S","t","a","r","t","e","d">>

\* dict.get(key, default)
get(d, key, default) == IF key \in DOMAIN d THEN d[key] ELSE default

\* the row takes its Owner from the record when the record has one
row_of_with_owner(i, obligation, source) ==
    [ID |-> obligation_id(i),
     ObligationText |-> obligation.text,
     SourceDocument |-> source,
     Keywords |-> get(obligation, "keywords", <<>>),
     Owner |-> get(obligation, "Owner", NotStarted),
     NextDueDate |-> NotStarted,
     Status |-> NotStarted]

\* the row of the i-th obligation; the columns 'Obligation Text', 'Source
\* Document' and 'Next Due Date' are written without the space
row_of(i, obligation, source) ==
    [ID |-> obligation_id(i),
     ObligationText |-> obligation.text,
     SourceDocument |-> source,
     Keywords |-> get(obligation, "keywords", <<>>),
     Owner |-> NotStarted,
     NextDueDate |-> NotStarted,
     Status |-> NotStarted]

\* for i, obligation in enumerate(obligations, 1)
create_obligation_dataframe(obs, source) ==
    [i \in 1..Len(obs) |-> row_of(i, obs[i], source)]

\* os.path.basename: what follows the last separator
basename(path) ==
    LET seps == {i \in 1..Len(path) : path[i] = "/"}
    IN  IF seps = {} THEN path
        ELSE LET k == CHOOSE i \in seps : \A j \in seps : j <= i
             IN  SubSeq(path, k + 1, Len(path))

\* os.path.splitext(name)[0]: the name up to its last dot, a dot that only
\* leading dots come before does not count
splitext_root(name) ==
    LET dots == {i \in 1..Len(name) :
                    name[i] = "." /\ \E j \in 1..(i - 1) : name[j] # "."}
    IN  IF dots = {} THEN name
        ELSE LET k == CHOOSE i \in dots : \A j \in dots : j <= i
             IN  SubSeq(name, 1, k - 1)

\* os.path.join(directory, name) for a name that is not absolute
path_join(directory, name) ==
    IF directory = <<>> \/ directory[Len(directory)] = "/"
    THEN directory \o name
    ELSE directory \o <<"/">> \o name

\* the clock counts ticks, TicksPerSecond of them to the second, from
\* midnight of 2025-01-01 on
seconds_of(now) == now \div TicksPerSecond

\* strftime('%Y%m%d_%H%M%S') within the first minute: the ticks are cut off
strftime(now) ==
    <<"2","0","2","5","0","1","0","1","_","0","0","0","0">>
       \o zero_fill(Decimal(seconds_of(now)), 2)

\* isoformat() within the first minute: the ticks are kept
isoformat(now) ==
    <<"2","0","2","5","-","0","1","-","0","1","T","0","0",":","0","0",":">>
       \o zero_fill(Decimal(seconds_of(now)), 2) \o <<".">> \o Decimal(now % TicksPerSecond)

ObligationsInfix == <<"_","o","b","l","i","g","a","t","i","o","n","s","_">>

Xlsx == <<".","x","l","s","x">>

generate_output_filename(source, directory, now) ==
    path_join(directory,
              splitext_root(basename(source)) \o ObligationsInfix \o strftime(now) \o Xlsx)

\* str.split(sep)
RECURSIVE split(_, _)
split(s, sep) ==
    LET at == {i \in 1..(Len(s) - Len(sep) + 1) : SubSeq(s, i, i + Len(sep) - 1) = sep}
    IN  IF at = {} THEN <<s>>
        ELSE LET i == CHOOSE a \in at : \A b \in at : a <= b
             IN  <<SubSeq(s, 1, i - 1)>> \o split(SubSeq(s, i + Len(sep), Len(s)), sep)

\* the stripped, non-blank keywords of all the records, one after the other
RECURSIVE keyword_occurrences(_)
keyword_occurrences(obs) ==
    IF obs = <<>> THEN <<>>
    ELSE LET parts == split(get(Head(obs), "keywords", <<>>), KeywordSeparator)
             stripped == [i \in 1..Len(parts) |-> strip(parts[i])]
             NonBlank(k) == k # <<>>
         IN  SelectSeq(stripped, NonBlank) \o keyword_occurrences(Tail(obs))

keyword_counts(obs) ==
    LET all == keyword_occurrences(obs)
    IN  [k \in {all[i] : i \in 1..Len(all)} |->
            Cardinality({i \in 1..Len(all) : all[i] = k})]

create_summary_report(obs, source, now) ==
    [total_obligations |-> Len(obs),
     source_document |-> source,
     keyword_distribution |-> keyword_counts(obs),
     extraction_timestamp |-> isoformat(now)]

ProcessingErrorPrefix == <<"E","r","r","o","r"," ","p","r","o","c","e","s","s","i","n","g"," ","d","o","c","u","m","e","n","t",":"," ">>

\* the smaller lists on which calls of process_sentences are compared
CallTokens ==
    { <<"m","u","s","t">>, <<" ">>, <<"x">>,
      <<"1","2","3","-","4","5","6","-","7","8","9"," ">>,
      <<" ","b","e"," ","u","p","d","a","t","e","d">>,
      <<"U","s","e","r","s"," ","m","u","s","t"," ","c","o","m","p","l","y"," ","w","i","t","h"," ","a","l","l"," ","s","e","c","u","r","i","t","y"," ","p","o","l","i","c","i","e","s",".">>,
      <<"T","h","e"," ","s","y","s","t","e","m"," ","s","h","a","l","l"," ","e","n","c","r","y","p","t"," ","a","l","l"," ","d","a","t","a"," ","i","n"," ","t","r","a","n","s","i","t",".">> }

CallSentenceLists ==
    {<<>>} \cup {Group(ts) : ts \in TokenSeqs(CallTokens \cup {Break}, MaxSentenceTokens)}

\* the arguments of process_document: main() passes the default directory
PdfPaths == { <<"d","o","c","s","/","a",".","p","d","f">>, <<"b",".","p","d","f">> }

OutputDirs == { <<"o","u","t","p","u","t">>, <<"o","u","t">> }

Missing == [kind |-> "missing", pages |-> <<>>]

Corrupt == [kind |-> "corrupt", pages |-> <<>>]

\* a PDF of two pages with three sentences, one short and one an obligation
TwoPages ==
    [kind |-> "pdf",
     pages |-> << <<"S","h","o","r","t","."," ","S","t","a","f","f"," ","m","u","s","t"," ","l","o","c","k"," ","a","l","l"," ","d","o","o","r","s","."," ","I","t">>,
                  <<" ","i","s"," ","c","l","o","s","e","d","."," ">> >>]

NoPages == [kind |-> "pdf", pages |-> <<>>]

Documents == {Missing, Corrupt, TwoPages, NoPages}

FileSystems == [PdfPaths -> Documents]

\* records as a caller of the exporter writes them (test_create_obligation_dataframe),
\* one with a key of its own, one without the key 'keywords'
ExportChunks ==
    LET comply  == [text |-> <<"U","s","e","r","s"," ","m","u","s","t"," ","c","o","m","p","l","y">>, keywords |-> <<"m","u","s","t">>]
        encrypt == [text |-> <<"D","a","t","a"," ","s","h","a","l","l"," ","b","e"," ","e","n","c","r","y","p","t","e","d">>, keywords |-> <<"s","h","a","l","l">>]
        owned   == [text |-> <<"S","t","a","f","f"," ","m","u","s","t"," ","a","n","d"," ","s","h","a","l","l"," ","s","i","g","n">>, keywords |-> <<"m","u","s","t",","," ","s","h","a","l","l">>, Owner |-> <<"A","l","i","c","e">>]
        bare    == [text |-> <<"S","t","a","f","f"," ","s","h","a","l","l"," ","c","o","m","p","l","y">>]
    IN  { <<comply>>, <<encrypt>>, <<owned>>, <<comply, encrypt, bare, comply, encrypt>> }

ExportLists == {Concat(cs) : cs \in TokenSeqs(ExportChunks, MaxChunks)}

TestPdf == <<"t","e","s","t",".","p","d","f">>

(***************************************************************************)
(* The state machine: one action per method, pc names the call to come.    *)
(***************************************************************************)
\* no document is being processed and nothing has been exported
NoDocument ==
    /\ calls = <<>>
    /\ pdf_path = <<>>
    /\ output_dir = <<>>
    /\ source_document = <<>>
    /\ output_path = <<>>
    /\ excel_path = <<>>
    /\ rows = <<>>
    /\ summary = <<>>
    /\ raised = <<>>
    /\ result = <<>>
    /\ fs = [p \in PdfPaths |-> Missing]
    /\ files = {}
    /\ clock = 0

\* nothing has been segmented or classified
NoSentences ==
    /\ text = <<>>
    /\ potential_sentences = <<>>
    /\ sentences = <<>>
    /\ sentence = <<>>
    /\ found = FALSE
    /\ obligations = <<>>
    /\ min_length = DefaultMinLength
    /\ filtered = <<>>

InitSegment ==
    /\ pc = "split_into_sentences"
    /\ text \in Texts
    /\ potential_sentences = <<>>
    /\ sentences = <<>>
    /\ sentence = <<>>
    /\ found = FALSE
    /\ obligations = <<>>
    /\ min_length = DefaultMinLength
    /\ filtered = <<>>
    /\ NoDocument

InitClassify ==
    /\ pc = "process_sentences"
    /\ text = <<>>
    /\ potential_sentences = <<>>
    /\ sentences \in SentenceLists
    /\ sentence = <<>>
    /\ found = FALSE
    /\ obligations = <<>>
    /\ min_length = DefaultMinLength
    /\ filtered = <<>>
    /\ NoDocument

InitCaps ==
    /\ pc = "process_sentences"
    /\ text = <<>>
    /\ potential_sentences = <<>>
    /\ sentences \in CapsSentenceLists
    /\ sentence = <<>>
    /\ found = FALSE
    /\ obligations = <<>>
    /\ min_length = DefaultMinLength
    /\ filtered = <<>>
    /\ NoDocument

InitFilter ==
    /\ pc = "filter_obligations"
    /\ text = <<>>
    /\ potential_sentences = <<>>
    /\ sentences = <<>>
    /\ sentence = <<>>
    /\ found = FALSE
    /\ obligations \in ObligationLists
    /\ min_length = DefaultMinLength
    /\ filtered = <<>>
    /\ NoDocument

InitKeyword ==
    /\ pc = "contains_obligation_keyword"
    /\ text = <<>>
    /\ potential_sentences = <<>>
    /\ sentences = <<>>
    /\ sentence \in KeywordSentences
    /\ found = FALSE
    /\ obligations = <<>>
    /\ min_length = DefaultMinLength
    /\ filtered = <<>>
    /\ NoDocument

InitCalls ==
    /\ pc = "process_sentences"
    /\ text = <<>>
    /\ potential_sentences = <<>>
    /\ sentences \in CallSentenceLists
    /\ sentence = <<>>
    /\ found = FALSE
    /\ obligations = <<>>
    /\ min_length = DefaultMinLength
    /\ filtered = <<>>
    /\ NoDocument

\* create_obligation_dataframe called by hand, as the exporter's test does
InitExport ==
    /\ pc = "create_obligation_dataframe"
    /\ text = <<>>
    /\ potential_sentences = <<>>
    /\ sentences = <<>>
    /\ sentence = <<>>
    /\ found = FALSE
    /\ obligations \in ExportLists
    /\ min_length = DefaultMinLength
    /\ filtered = <<>>
    /\ calls = <<>>
    /\ pdf_path = <<>>
    /\ output_dir = <<>>
    /\ source_document = TestPdf
    /\ output_path = <<>>
    /\ excel_path = <<>>
    /\ rows = <<>>
    /\ summary = <<>>
    /\ raised = <<>>
    /\ result = <<>>
    /\ fs = [p \in PdfPaths |-> Missing]
    /\ files = {}
    /\ clock = 0

\* a ComplianceAssistant just constructed, before its first process_document
InitDocument ==
    /\ pc = "process_document"
    /\ NoSentences
    /\ calls = <<>>
    /\ pdf_path = <<>>
    /\ output_dir = <<>>
    /\ source_document = <<>>
    /\ output_path = <<>>
    /\ excel_path = <<>>
    /\ rows = <<>>
    /\ summary = <<>>
    /\ raised = <<>>
    /\ result = <<>>
    /\ fs \in FileSystems
    /\ files = {}
    /\ clock = 0

Init ==
    \/ InitSegment \/ InitClassify \/ InitCaps \/ InitFilter \/ InitKeyword
    \/ InitCalls \/ InitExport \/ InitDocument

\* if not text: raise ValueError
SplitIntoSentences_raising_on_empty ==
    /\ pc = "split_into_sentences"
    /\ calls' = Append(calls, "split_into_sentences")
    /\ \/ /\ text # <<>>
          /\ potential_sentences' = re_split(cleaned_text(text))
          /\ sentences' = split_into_sentences(text)
          /\ raised' = raised
          /\ pc' = "segmented"
       \/ /\ text = <<>>
          /\ raised' = <<exception("ValueError", <<>>, <<>>)>>
          /\ pc' = "except"
          /\ UNCHANGED <<potential_sentences, sentences>>
    /\ UNCHANGED <<text, sentence, found, obligations, min_length, filtered, pdf_path,
                   output_dir, source_document, output_path, excel_path, rows,
                   summary, result, fs, files, clock>>

SplitIntoSentences ==
    /\ pc = "split_into_sentences"
    /\ potential_sentences' = re_split(cleaned_text(text))
    /\ sentences' = split_into_sentences(text)
    /\ pc' = "segmented"
    /\ calls' = Append(calls, "split_into_sentences")
    /\ UNCHANGED <<text, sentence, found, obligations, min_length, filtered>>
    /\ UNCHANGED document_vars

ContainsObligationKeyword ==
    /\ pc = "contains_obligation_keyword"
    /\ found' = contains_obligation_keyword(sentence)
    /\ pc' = "checked"
    /\ calls' = Append(calls, "contains_obligation_keyword")
    /\ UNCHANGED <<text, potential_sentences, sentences, sentence, obligations, min_length, filtered>>
    /\ UNCHANGED document_vars

ExtractObligations ==
    /\ pc = "process_sentences"
    /\ obligations' = extract_obligations(sentences)
    /\ pc' = "extracted"
    /\ calls' = Append(calls, "extract_obligations")
    /\ UNCHANGED <<text, potential_sentences, sentences, sentence, found, min_length, filtered>>
    /\ UNCHANGED document_vars

FilterObligations ==
    /\ pc \in {"extracted", "filter_obligations"}
    /\ \E m \in MinLengths :
          /\ min_length' = m
          /\ filtered' = filter_obligations(obligations, m)
    /\ pc' = "filtered"
    /\ calls' = Append(calls, "filter_obligations")
    /\ UNCHANGED <<text, potential_sentences, sentences, sentence, found, obligations>>
    /\ UNCHANGED document_vars

ProcessSentences ==
    /\ pc \in {"segmented", "process_sentences"}
    /\ obligations' = extract_obligations(sentences)
    /\ min_length' = DefaultMinLength
    /\ filtered' = process_sentences(sentences)
    /\ pc' = "classified"
    /\ calls' = Append(calls, "process_sentences")
    /\ UNCHANGED <<text, potential_sentences, sentences, sentence, found>>
    /\ UNCHANGED document_vars

\* create_obligation_dataframe called by hand, again and again
CreateObligationDataframe ==
    /\ pc \in {"create_obligation_dataframe", "created"}
    /\ Len(calls) < MaxCalls
    /\ \E obs \in (IF pc = "created" THEN ExportLists ELSE {obligations}) :
          /\ obligations' = obs
          /\ rows' = create_obligation_dataframe(obs, source_document)
    /\ calls' = Append(calls, "create_obligation_dataframe")
    /\ pc' = "created"
    /\ UNCHANGED <<text, potential_sentences, sentences, sentence, found, min_length,
                   filtered, pdf_path, output_dir, source_document, output_path,
                   excel_path, summary, raised, result, fs, files, clock>>

\* process_document is called: its locals are not bound yet
ProcessDocument ==
    /\ pc \in {"process_document", "returned"}
    /\ \E p \in PdfPaths, d \in OutputDirs :
          /\ pdf_path' = p
          /\ output_dir' = d
    /\ calls' = <<"process_document">>
    /\ text' = <<>>
    /\ potential_sentences' = <<>>
    /\ sentences' = <<>>
    /\ obligations' = <<>>
    /\ filtered' = <<>>
    /\ source_document' = <<>>
    /\ output_path' = <<>>
    /\ excel_path' = <<>>
    /\ rows' = <<>>
    /\ summary' = <<>>
    /\ raised' = <<>>
    /\ result' = <<>>
    /\ pc' = "extract_text_from_pdf"
    /\ UNCHANGED <<sentence, found, min_length, fs, files, clock>>

\* the error goes unnoticed and the run goes on with an empty text
ExtractTextFromPdf_swallowing_error ==
    /\ pc = "extract_text_from_pdf"
    /\ calls' = Append(calls, "extract_text_from_pdf")
    /\ text' = extract_text_from_pdf(pdf_path, fs[pdf_path]).text
    /\ pc' = "split_into_sentences"
    /\ UNCHANGED <<potential_sentences, sentences, sentence, found, obligations,
                   min_length, filtered, pdf_path, output_dir, source_document,
                   output_path, excel_path, rows, summary, raised, result, fs, files,
                   clock>>

\* process_pdf, first half: the text is extracted, or the exception leaves
\* process_pdf and reaches the except clause of process_document
ExtractTextFromPdf ==
    /\ pc = "extract_text_from_pdf"
    /\ calls' = Append(calls, "extract_text_from_pdf")
    /\ LET r == extract_text_from_pdf(pdf_path, fs[pdf_path])
       IN  \/ /\ r.raised = <<>>
              /\ text' = r.text
              /\ raised' = raised
              /\ pc' = "split_into_sentences"
           \/ /\ r.raised # <<>>
              /\ text' = text
              /\ raised' = r.raised
              /\ pc' = "except"
    /\ UNCHANGED <<potential_sentences, sentences, sentence, found, obligations,
                   min_length, filtered, pdf_path, output_dir, source_document,
                   output_path, excel_path, rows, summary, result, fs, files, clock>>

\* datetime.now() returns a time not before the one it returned last
GenerateOutputFilename ==
    /\ pc = "classified"
    /\ pdf_path # <<>>
    /\ calls' = Append(calls, "generate_output_filename")
    /\ source_document' = basename(pdf_path)
    /\ \E now \in clock..MaxClock :
          /\ clock' = now
          /\ output_path' = generate_output_filename(basename(pdf_path), output_dir, now)
    /\ pc' = "export_to_excel"
    /\ UNCHANGED <<text, potential_sentences, sentences, sentence, found, obligations,
                   min_length, filtered, pdf_path, output_dir, excel_path, rows,
                   summary, raised, result, fs, files>>

PermissionDenied(path) ==
    exception("PermissionError",
              <<"[","E","r","r","n","o"," ","1","3","]"," ","P","e","r","m","i","s","s","i","o","n"," ","d","e","n","i","e","d",":"," ","'">> \o path \o <<"'">>,
              <<>>)

\* the file at output_path is created or replaced; of a file the model keeps
\* the rows and, beside them, the arguments of the run that wrote it.  When
\* the directory or the file cannot be written the exception is raised on.
ExportToExcel ==
    /\ pc = "export_to_excel"
    /\ calls' = Append(calls, "export_to_excel")
    /\ \/ /\ rows' = create_obligation_dataframe(filtered, source_document)
          /\ files' = {f \in files : f.path # output_path}
                         \cup {[path |-> output_path, rows |-> rows',
                                source |-> pdf_path, directory |-> output_dir]}
          /\ excel_path' = output_path
          /\ raised' = raised
          /\ pc' = "create_summary_report"
       \/ /\ raised' = <<PermissionDenied(output_path)>>
          /\ pc' = "except"
          /\ UNCHANGED <<rows, files, excel_path>>
    /\ UNCHANGED <<text, potential_sentences, sentences, sentence, found, obligations,
                   min_length, filtered, pdf_path, output_dir, source_document,
                   output_path, summary, result, fs, clock>>

\* summary['total_sentences'] = len(obligations)
CreateSummaryReport_counting_obligations ==
    /\ pc = "create_summary_report"
    /\ calls' = Append(calls, "create_summary_report")
    /\ \E now \in clock..MaxClock :
          /\ clock' = now
          /\ summary' = << ("excel_output_path" :> excel_path
                              @@ "total_sentences" :> Len(filtered))
                           @@ create_summary_report(filtered, source_document, now) >>
    /\ pc' = "return"
    /\ UNCHANGED <<text, potential_sentences, sentences, sentence, found, obligations,
                   min_length, filtered, pdf_path, output_dir, source_document,
                   output_path, excel_path, rows, raised, result, fs, files>>

\* the summary of the exporter with the two entries process_document adds
CreateSummaryReport ==
    /\ pc = "create_summary_report"
    /\ calls' = Append(calls, "create_summary_report")
    /\ \E now \in clock..MaxClock :
          /\ clock' = now
          /\ summary' = << ("excel_output_path" :> excel_path
                              @@ "total_sentences" :> Len(sentences))
                           @@ create_summary_report(filtered, source_document, now) >>
    /\ pc' = "return"
    /\ UNCHANGED <<text, potential_sentences, sentences, sentence, found, obligations,
                   min_length, filtered, pdf_path, output_dir, source_document,
                   output_path, excel_path, rows, raised, result, fs, files>>

ReturnResult ==
    /\ pc = "return"
    /\ result' = << [success |-> TRUE, summary |-> summary[1],
                     obligations |-> filtered, excel_path |-> excel_path] >>
    /\ pc' = "returned"
    /\ UNCHANGED <<text, potential_sentences, sentences, sentence, found, obligations,
                   min_length, filtered, calls, pdf_path, output_dir, source_document,
                   output_path, excel_path, rows, summary, raised, fs, files, clock>>

\* the exception is raised on to the caller of process_document
ExceptHandler_raising ==
    /\ pc = "except"
    /\ pc' = "returned"
    /\ UNCHANGED <<text, potential_sentences, sentences, sentence, found, obligations,
                   min_length, filtered, calls, pdf_path, output_dir, source_document,
                   output_path, excel_path, rows, summary, raised, result, fs, files,
                   clock>>

\* except Exception as e: the exception ends here and a result is returned
ExceptHandler ==
    /\ pc = "except"
    /\ result' = << [success |-> FALSE,
                     error |-> ProcessingErrorPrefix \o raised[1].message] >>
    /\ raised' = <<>>
    /\ pc' = "returned"
    /\ UNCHANGED <<text, potential_sentences, sentences, sentence, found, obligations,
                   min_length, filtered, calls, pdf_path, output_dir, source_document,
                   output_path, excel_path, rows, summary, fs, files, clock>>

Next ==
    \/ SplitIntoSentences
    \/ ContainsObligationKeyword
    \/ ExtractObligations
    \/ FilterObligations
    \/ ProcessSentences
    \/ CreateObligationDataframe
    \/ ProcessDocument
    \/ ExtractTextFromPdf
    \/ GenerateOutputFilename
    \/ ExportToExcel
    \/ CreateSummaryReport
    \/ ReturnResult
    \/ ExceptHandler

Spec == Init /\ [][Next]_vars

NextSegment == SplitIntoSentences \/ ProcessSentences

SpecSegment == InitSegment /\ [][NextSegment]_vars

NextClassify == ExtractObligations \/ FilterObligations \/ ProcessSentences

SpecClassify == InitClassify /\ [][NextClassify]_vars

SpecCaps == InitCaps /\ [][NextClassify]_vars

SpecFilter == InitFilter /\ [][FilterObligations]_vars

SpecKeyword == InitKeyword /\ [][ContainsObligationKeyword]_vars

SpecCalls == InitCalls /\ [][NextClassify]_vars

InitStages == InitSegment \/ InitCalls

SpecStages == InitStages /\ [][NextSegment]_vars

SpecExport == InitExport /\ [][CreateObligationDataframe]_vars

NextDocument ==
    \/ ProcessDocument
    \/ ExtractTextFromPdf
    \/ SplitIntoSentences
    \/ ProcessSentences
    \/ GenerateOutputFilename
    \/ ExportToExcel
    \/ CreateSummaryReport
    \/ ReturnResult
    \/ ExceptHandler

SpecDocument == InitDocument /\ [][NextDocument]_vars

(***************************************************************************)
(* Vocabulary of the properties, stated apart from the operators above.    *)
(***************************************************************************)
Range(f) == {f[i] : i \in 1..Len(f)}

\* w and k are the same word up to the case of the letters A-Z
SameWordIgnoringCase(w, k) ==
    /\ Len(w) = Len(k)
    /\ \A i \in 1..Len(k) :
          \/ w[i] = k[i]
          \/ \E a \in 1..26 : LowerCase[a] = k[i] /\ UpperCase[a] = w[i]

\* the words of s: the maximal runs of letters, digits and underscores
WholeWords(s) ==
    LET first == {a \in 1..Len(s) :
                     IsWordChar(s[a]) /\ (a = 1 \/ ~IsWordChar(s[a - 1]))}
        last  == {b \in 1..Len(s) :
                     IsWordChar(s[b]) /\ (b = Len(s) \/ ~IsWordChar(s[b + 1]))}
        EndOf(a) == CHOOSE b \in last : b >= a /\ \A c \in last : c >= a => b <= c
    IN  {SubSeq(s, a, EndOf(a)) : a \in first}

\* keyword number k occurs in s as a whole word, whatever the case
KeywordIsWordOf(k, s) ==
    \E w \in WholeWords(s) : SameWordIgnoringCase(w, OBLIGATION_KEYWORDS[k])

HasWholeWordKeyword(s) == \E k \in 1..Len(OBLIGATION_KEYWORDS) : KeywordIsWordOf(k, s)

RECURSIVE DropLeadingSpace(_)
DropLeadingSpace(s) ==
    IF s # <<>> /\ isspace(Head(s)) THEN DropLeadingSpace(Tail(s)) ELSE s

RECURSIVE DropTrailingSpace(_)
DropTrailingSpace(s) ==
    IF s # <<>> /\ isspace(s[Len(s)])
    THEN DropTrailingSpace(SubSeq(s, 1, Len(s) - 1))
    ELSE s

\* s without its leading and trailing whitespace
Trimmed(s) == DropTrailingSpace(DropLeadingSpace(s))

RECURSIVE LetterCount(_)
LetterCount(t) ==
    IF t = <<>> THEN 0
    ELSE (IF Head(t) \in UpperLetters \cup LowerLetters THEN 1 ELSE 0) + LetterCount(Tail(t))

EntirelyUpperCase(t) ==
    /\ \E i \in 1..Len(t) : t[i] \in UpperLetters
    /\ ~\E i \in 1..Len(t) : t[i] \in LowerLetters

LengthCheckPasses(t, minlen) == Len(t) >= minlen

AllCapsCheckPasses(t) == ~(EntirelyUpperCase(t) /\ Len(t) < 100)

AlphabeticCheckPasses(t) == 2 * LetterCount(t) >= Len(t)

\* the indices of ss, in order, whose element satisfies P
Indices(ss, P(_)) ==
    LET Holds(i) == P(ss[i])
    IN  SelectSeq([i \in 1..Len(ss) |-> i], Holds)

\* parts of a string between the occurrences of ", "
RECURSIVE SplitAtCommaSpace(_)
SplitAtCommaSpace(s) ==
    LET at == {i \in 1..(Len(s) - 1) : s[i] = "," /\ s[i + 1] = " "}
    IN  IF at = {} THEN <<s>>
        ELSE LET i == CHOOSE a \in at : \A b \in at : a <= b
             IN  <<SubSeq(s, 1, i - 1)>> \o SplitAtCommaSpace(SubSeq(s, i + 2, Len(s)))

KeywordNumber(w) ==
    IF \E k \in 1..Len(OBLIGATION_KEYWORDS) : OBLIGATION_KEYWORDS[k] = w
    THEN CHOOSE k \in 1..Len(OBLIGATION_KEYWORDS) : OBLIGATION_KEYWORDS[k] = w
    ELSE 0

(***************************************************************************)
(* C1  process_sentences returns a record for a sentence if and only if    *)
(* the sentence has a whole-word keyword match and its trimmed text passes *)
(* the three quality checks (length >= 20, not all-caps below 100          *)
(* characters, at least half alphabetic); the records are the trimmed      *)
(* qualifying sentences, in order, each with a non-empty keywords string.  *)
(***************************************************************************)
Qualifies(s) ==
    /\ HasWholeWordKeyword(s)
    /\ LengthCheckPasses(Trimmed(s), 20)
    /\ AllCapsCheckPasses(Trimmed(s))
    /\ AlphabeticCheckPasses(Trimmed(s))

C1_RecordIffKeywordAndQuality ==
    pc = "classified" =>
        LET idx == Indices(sentences, Qualifies)
        IN  /\ Len(filtered) = Len(idx)
            /\ \A j \in 1..Len(idx) :
                  /\ filtered[j].text = Trimmed(sentences[idx[j]])
                  /\ filtered[j].keywords # <<>>

\* one sentence gives a record, another has a keyword and fails the quality checks
C1_Witness ==
    /\ pc = "classified"
    /\ Len(sentences) = 2
    /\ Len(obligations) = 2
    /\ Len(filtered) = 1

(***************************************************************************)
(* C2  contains_obligation_keyword returns true exactly when one of the    *)
(* four keywords is a whole word of the sentence, whatever the case of its *)
(* letters; a keyword that is only part of a longer word does not match.   *)
(***************************************************************************)
C2_WholeWordMatch ==
    pc = "checked" => (found <=> HasWholeWordKeyword(sentence))

\* 'mustard' holds the keyword only as part of a longer word: no match
C2_Witness ==
    /\ pc = "checked"
    /\ sentence = <<"m","u","s","t","a","r","d">>
    /\ found = FALSE

(***************************************************************************)
(* C3  Every candidate record of extract_obligations lists, in its         *)
(* keywords field, every keyword that matches the sentence, each exactly   *)
(* once, in the order must, shall, required, mandatory, joined by ", ".    *)
(***************************************************************************)
KeywordsFieldOf(s, field) ==
    LET parts == SplitAtCommaSpace(field)
    IN  /\ \A j \in 1..Len(parts) : KeywordNumber(parts[j]) # 0
        /\ \A j \in 1..(Len(parts) - 1) :
              KeywordNumber(parts[j]) < KeywordNumber(parts[j + 1])
        /\ \A k \in 1..Len(OBLIGATION_KEYWORDS) :
              KeywordIsWordOf(k, s) <=> OBLIGATION_KEYWORDS[k] \in Range(parts)

C3_KeywordsInDeclarationOrder ==
    pc \in {"extracted", "classified"} =>
        LET idx == Indices(sentences, HasWholeWordKeyword)
        IN  /\ Len(obligations) = Len(idx)
            /\ \A j \in 1..Len(idx) :
                  KeywordsFieldOf(sentences[idx[j]], obligations[j].keywords)

\* 'shall' comes first in the sentence, 'must' comes first in the field
C3_Witness ==
    /\ pc = "extracted"
    /\ sentences = << <<"s","h","a","l","l"," ","m","u","s","t">> >>
    /\ Len(obligations) = 1
    /\ obligations[1].keywords = <<"m","u","s","t",","," ","s","h","a","l","l">>

(***************************************************************************)
(* C8  (as stated) filter_obligations never keeps a record whose trimmed   *)
(* text is shorter than min_length, and does not reject, by the length     *)
(* check, a record whose trimmed text has min_length characters or more.   *)
(***************************************************************************)
Kept(r) == r \in Range(filtered)

C8_TrimmedLengthDecides ==
    pc = "filtered" =>
        \A i \in 1..Len(obligations) :
            LET r == obligations[i]
            IN  /\ Len(Trimmed(r.text)) < min_length => ~Kept(r)
                /\ (/\ Len(Trimmed(r.text)) >= min_length
                    /\ AllCapsCheckPasses(r.text)
                    /\ AlphabeticCheckPasses(r.text)) => Kept(r)

(***************************************************************************)
(* C8  (amended) filter_obligations measures the text as the record holds  *)
(* it, without trimming it again: a record whose text has fewer than       *)
(* min_length characters is never kept, and a record whose text has        *)
(* min_length characters or more is not rejected by the length check.      *)
(***************************************************************************)
C8_StoredLengthDecides ==
    pc = "filtered" =>
        \A i \in 1..Len(obligations) :
            LET r == obligations[i]
            IN  /\ ~LengthCheckPasses(r.text, min_length) => ~Kept(r)
                /\ (/\ LengthCheckPasses(r.text, min_length)
                    /\ AllCapsCheckPasses(r.text)
                    /\ AlphabeticCheckPasses(r.text)) => Kept(r)

\* a record of exactly min_length characters is kept
C8_Witness ==
    /\ pc = "filtered"
    /\ min_length = DefaultMinLength
    /\ \E i \in 1..Len(obligations) :
          Len(obligations[i].text) = min_length /\ Kept(obligations[i])

(***************************************************************************)
(* C9  A sentence that is entirely upper-case and shorter than 100         *)
(* characters yields no record from process_sentences, keyword or not; an  *)
(* entirely upper-case record text of 100 characters or more is not        *)
(* rejected by the all-caps check.                                         *)
(***************************************************************************)
C9_AllCapsBelowHundred ==
    pc = "classified" =>
        /\ \A i \in 1..Len(sentences) :
              (EntirelyUpperCase(sentences[i]) /\ Len(sentences[i]) < 100) =>
                  \A j \in 1..Len(filtered) : filtered[j].text # Trimmed(sentences[i])
        /\ \A i \in 1..Len(obligations) :
              LET r == obligations[i]
              IN  (/\ EntirelyUpperCase(r.text)
                   /\ Len(r.text) >= 100
                   /\ LengthCheckPasses(r.text, 20)
                   /\ AlphabeticCheckPasses(r.text)) => Kept(r)

\* 99 upper-case characters with a keyword: dropped; 100: kept
C9_Witness ==
    /\ pc = "classified"
    /\ \E i \in 1..Len(sentences) :
          /\ EntirelyUpperCase(sentences[i])
          /\ Len(sentences[i]) = 100
          /\ HasWholeWordKeyword(sentences[i])
          /\ \E j \in 1..Len(filtered) : filtered[j].text = sentences[i]

C9_WitnessBelow ==
    /\ pc = "classified"
    /\ \E i \in 1..Len(sentences) :
          /\ EntirelyUpperCase(sentences[i])
          /\ Len(sentences[i]) = 99
          /\ HasWholeWordKeyword(sentences[i])
    /\ filtered = <<>>

(***************************************************************************)
(* C10  filter_obligations never keeps a record whose alphabetic           *)
(* characters are fewer than half of all its characters, and the           *)
(* alphabetic check does not reject a record with half or more: a text     *)
(* that is exactly half alphabetic is kept, '123-456-789 must be updated'  *)
(* is rejected.                                                            *)
(***************************************************************************)
C10_Example == <<"1","2","3","-","4","5","6","-","7","8","9"," ","m","u","s","t"," ","b","e"," ","u","p","d","a","t","e","d">>

C10_HalfAlphabetic ==
    pc = "filtered" =>
        \A i \in 1..Len(obligations) :
            LET r == obligations[i]
            IN  /\ 2 * LetterCount(r.text) < Len(r.text) => ~Kept(r)
                /\ (/\ 2 * LetterCount(r.text) >= Len(r.text)
                    /\ LengthCheckPasses(r.text, min_length)
                    /\ AllCapsCheckPasses(r.text)) => Kept(r)
                /\ r.text = C10_Example => ~Kept(r)

\* a text of 28 characters, 14 of them letters, is kept
C10_Witness ==
    /\ pc = "filtered"
    /\ min_length = DefaultMinLength
    /\ \E i \in 1..Len(obligations) :
          /\ 2 * LetterCount(obligations[i].text) = Len(obligations[i].text)
          /\ Len(obligations[i].text) >= min_length
          /\ Kept(obligations[i])

\* the example of the specification is among the records and is dropped
C10_WitnessExample ==
    /\ pc = "filtered"
    /\ min_length = DefaultMinLength
    /\ obligations # <<>>
    /\ obligations[1].text = C10_Example
    /\ filtered = <<>>

(***************************************************************************)
(* Vocabulary of the segmenter's properties.                               *)
(***************************************************************************)
TerminalMarks == {".", "!", "?"}

\* raw with every run of whitespace made one space and none at either end
NormalizedText(raw) ==
    LET kept == {i \in 1..Len(raw) :
                    \/ ~isspace(raw[i])
                    \/ /\ i > 1
                       /\ ~isspace(raw[i - 1])
                       /\ \E j \in (i + 1)..Len(raw) : ~isspace(raw[j])}
        At(k) == CHOOSE i \in kept : Cardinality({j \in kept : j <= i}) = k
    IN  [k \in 1..Cardinality(kept) |-> IF isspace(raw[At(k)]) THEN " " ELSE raw[At(k)]]

\* positions of the whitespace between a terminal mark and a letter of Upper
Boundaries(c, Upper) ==
    {i \in 2..(Len(c) - 1) :
        c[i - 1] \in TerminalMarks /\ isspace(c[i]) /\ c[i + 1] \in Upper}

\* the k-th smallest element of the set B of numbers
Nth(B, k) == CHOOSE b \in B : Cardinality({a \in B : a <= b}) = k

\* the segments are the stretches of c from one boundary of B to the next
SplitAt(c, B, segments) ==
    /\ Len(segments) = Cardinality(B) + 1
    /\ \A k \in 1..Len(segments) :
          LET from  == IF k = 1 THEN 1 ELSE Nth(B, k - 1) + 1
              limit == IF k = Len(segments) THEN Len(c) ELSE Nth(B, k) - 1
              to    == from + Len(segments[k]) - 1
          IN  /\ to <= limit
              /\ k = Len(segments) => to = limit
              /\ segments[k] = SubSeq(c, from, to)

Returned(segments) ==
    LET Long(g) == Len(g) > 10
    IN  SelectSeq(segments, Long)

SplitsAtBoundaries(Upper) ==
    LET c == NormalizedText(text)
        B == Boundaries(c, Upper)
    IN  /\ SplitAt(c, B, potential_sentences)
        /\ B = {} => sentences = (IF Len(c) > 10 THEN <<c>> ELSE <<>>)
        /\ text = <<>> => sentences = <<>>

\* c cut at the boundaries of B; a segment before a boundary ends `gap`
\* characters before the segment after it starts: the whitespace is left out
\* (gap 1), or the terminal mark and the whitespace are (gap 2)
CutAt(c, B, gap) ==
    [k \in 1..(Cardinality(B) + 1) |->
        SubSeq(c,
               IF k = 1 THEN 1 ELSE Nth(B, k - 1) + 1,
               IF k = Cardinality(B) + 1 THEN Len(c) ELSE Nth(B, k) - gap)]

\* the needles occur in hay one after the other, from position `from` on
RECURSIVE InOrderSubstrings(_, _, _)
InOrderSubstrings(hay, needles, from) ==
    IF needles = <<>> THEN TRUE
    ELSE LET n == Head(needles)
             at == {p \in from..(Len(hay) - Len(n) + 1) : SubSeq(hay, p, p + Len(n) - 1) = n}
         IN  /\ at # {}
             /\ LET p == CHOOSE a \in at : \A b \in at : a <= b
                IN  InOrderSubstrings(hay, Tail(needles), p + Len(n))

NoOuterSpace(s) == s = <<>> \/ (~isspace(s[1]) /\ ~isspace(s[Len(s)]))

C5_MarkAndSpaceConsumed ==
    pc = "segmented" =>
        LET c == NormalizedText(text)
        IN  sentences = Returned(CutAt(c, Boundaries(c, AsciiUpper), 2))

(***************************************************************************)
(* C5  (amended) at every split only the whitespace is left out: the       *)
(* terminal mark stays as the last character of the segment before, and    *)
(* the capital letter starts the next segment.                             *)
(***************************************************************************)
C5_OnlySpaceConsumed ==
    pc = "segmented" =>
        LET c == NormalizedText(text)
        IN  sentences = Returned(CutAt(c, Boundaries(c, AsciiUpper), 1))

\* two returned sentences, the first one ends with its terminal mark
C5_Witness ==
    /\ pc = "segmented"
    /\ Len(sentences) = 2
    /\ sentences[1][Len(sentences[1])] \in TerminalMarks
    /\ sentences[2][1] \in AsciiUpper

(***************************************************************************)
(* C6  Every sentence split_into_sentences returns has no leading or       *)
(* trailing whitespace and more than 10 characters; a segment of 10        *)
(* characters or fewer is never returned.                                  *)
(***************************************************************************)
C6_TrimmedAndLongerThanTen ==
    pc \in {"segmented", "classified"} =>
        /\ \A i \in 1..Len(sentences) :
              NoOuterSpace(sentences[i]) /\ Len(sentences[i]) > 10
        /\ \A k \in 1..Len(potential_sentences) :
              Len(Trimmed(potential_sentences[k])) <= 10 =>
                  Trimmed(potential_sentences[k]) \notin Range(sentences)

\* a segment of 10 characters is dropped, one of 11 is returned
C6_Witness ==
    /\ pc = "segmented"
    /\ \E k \in 1..Len(potential_sentences) : Len(potential_sentences[k]) = 10
    /\ \E i \in 1..Len(sentences) : Len(sentences[i]) = 11

(***************************************************************************)
(* C7  (as stated) every returned sentence is a trimmed substring of the   *)
(* raw input text, and the sentences come in their order of appearance.    *)
(***************************************************************************)
C7_SubstringsOfRawText ==
    pc = "segmented" =>
        /\ \A i \in 1..Len(sentences) : NoOuterSpace(sentences[i])
        /\ InOrderSubstrings(text, sentences, 1)

(***************************************************************************)
(* C7  (amended) every returned sentence is a trimmed substring of the     *)
(* whitespace-normalized text (each run of whitespace of the raw text made *)
(* one space), and the sentences come in their order of appearance there.  *)
(***************************************************************************)
C7_SubstringsOfNormalizedText ==
    pc = "segmented" =>
        /\ \A i \in 1..Len(sentences) : NoOuterSpace(sentences[i])
        /\ InOrderSubstrings(NormalizedText(text), sentences, 1)

\* a returned sentence that spans a line break of the raw text
C7_Witness ==
    /\ pc = "segmented"
    /\ sentences # <<>>
    /\ ~InOrderSubstrings(text, sentences, 1)

(***************************************************************************)
(* Relations between calls of process_sentences.                           *)
(***************************************************************************)
Texts_of(records) == [i \in 1..Len(records) |-> records[i].text]

\* xs is ys with some elements left out: a strictly increasing map of the
\* positions of xs into the positions of ys, equal elements at both ends
RECURSIVE IsSubsequence(_, _)
IsSubsequence(xs, ys) ==
    IF xs = <<>> THEN TRUE
    ELSE IF ys = <<>> THEN FALSE
    ELSE IF Head(xs) = Head(ys) THEN IsSubsequence(Tail(xs), Tail(ys))
    ELSE IsSubsequence(xs, Tail(ys))

(***************************************************************************)
(* C11  (as stated) the texts of the records returned by process_sentences *)
(* form a subsequence of the input sentences: records in input order, no   *)
(* sentence giving more than one record.                                   *)
(***************************************************************************)
C11_SubsequenceOfInput ==
    pc = "classified" => IsSubsequence(Texts_of(filtered), sentences)

(***************************************************************************)
(* C11  (amended) the texts of the records returned by process_sentences   *)
(* form a subsequence of the trimmed input sentences: each text is its     *)
(* sentence without the outer whitespace, records in input order, no       *)
(* sentence giving more than one record.                                   *)
(***************************************************************************)
C11_SubsequenceOfTrimmedInput ==
    pc = "classified" =>
        IsSubsequence(Texts_of(filtered),
                      [i \in 1..Len(sentences) |-> Trimmed(sentences[i])])

\* two sentences gave two different records
C11_Witness ==
    /\ pc = "classified"
    /\ Len(sentences) = 2
    /\ Len(filtered) = 2
    /\ filtered[1].text # filtered[2].text

(***************************************************************************)
(* C12  process_sentences is idempotent: called on the texts of its own    *)
(* output it returns the same records, in the same order, none dropped.    *)
(***************************************************************************)
C12_Idempotent ==
    pc = "classified" => process_sentences(Texts_of(filtered)) = filtered

\* a record whose text is not the sentence it came from goes in again
C12_Witness ==
    /\ pc = "classified"
    /\ filtered # <<>>
    /\ Texts_of(filtered) # sentences
    /\ Len(filtered) = Len(sentences)

IsString(s) == DOMAIN s = 1..Len(s)

IsObligationRecord(r) ==
    /\ DOMAIN r = {"text", "keywords"}
    /\ IsString(r.text)
    /\ IsString(r.keywords)

C13_StagesNeverFail ==
    /\ raised = <<>>
    /\ pc \in {"split_into_sentences", "segmented", "process_sentences", "classified"}
    /\ pc \in {"segmented", "classified"} =>
          /\ DOMAIN sentences = 1..Len(sentences)
          /\ \A i \in 1..Len(sentences) : IsString(sentences[i])
    /\ pc = "segmented" /\ Trimmed(text) = <<>> => sentences = <<>>
    /\ pc = "classified" =>
          /\ DOMAIN filtered = 1..Len(filtered)
          /\ \A i \in 1..Len(filtered) : IsObligationRecord(filtered[i])
          /\ sentences = <<>> => filtered = <<>>

\* a text that is not blank and has no sentence in it: dropped, no error
C13_Witness ==
    /\ pc = "classified"
    /\ Trimmed(text) # <<>>
    /\ sentences = <<>>
    /\ filtered = <<>>
    /\ raised = <<>>

(***************************************************************************)
(* Runs of process_document.                                               *)
(***************************************************************************)
\* how often the method was called in the run
Times(method) == Cardinality({i \in 1..Len(calls) : calls[i] = method})

\* the document of the run is missing or is not a PDF, and the extraction
\* has been attempted
ExtractionFailed ==
    /\ pdf_path # <<>>
    /\ fs[pdf_path].kind # "pdf"
    /\ Times("extract_text_from_pdf") > 0

\* the exception that open or pypdf raised in the extraction
ErrorOfExtraction ==
    IF fs[pdf_path].kind = "missing" THEN NoSuchFile(pdf_path) ELSE PdfReadError

(***************************************************************************)
(* C14  (as stated) when the text extraction fails, the error reaches the  *)
(* caller of process_document unchanged: the exception that was raised in  *)
(* the extraction, not wrapped, not re-worded, and no result is returned.  *)
(***************************************************************************)
C14_ErrorPropagatedUnchanged ==
    pc = "returned" /\ ExtractionFailed =>
        /\ raised = <<ErrorOfExtraction>>
        /\ result = <<>>

(***************************************************************************)
(* C14  (amended) when the text extraction fails, extract_text_from_pdf    *)
(* raises a new exception with a message of its own ('PDF file not found:  *)
(* <path>' for a missing file, 'Error reading PDF file: <message>' for any *)
(* other error), and process_document catches it and returns a result with *)
(* success = false and error = 'Error processing document: ' followed by   *)
(* that message; no exception reaches the caller, and the run is aborted:  *)
(* nothing is called after the extraction.                                 *)
(***************************************************************************)
C14_ErrorReturnedAsResult ==
    pc = "returned" /\ ExtractionFailed =>
        LET reworded == IF fs[pdf_path].kind = "missing"
                        THEN <<"P","D","F"," ","f","i","l","e"," ","n","o","t"," ","f","o","u","n","d",":"," ">>
                                \o pdf_path
                        ELSE <<"E","r","r","o","r"," ","r","e","a","d","i","n","g"," ","P","D","F"," ","f","i","l","e",":"," ">>
                                \o ErrorOfExtraction.message
        IN  /\ raised = <<>>
            /\ result = << [success |-> FALSE,
                            error |-> <<"E","r","r","o","r"," ","p","r","o","c","e","s","s","i","n","g"," ","d","o","c","u","m","e","n","t",":"," ">>
                                         \o reworded] >>
            /\ calls = <<"process_document", "extract_text_from_pdf">>

\* a run on a path where no file is has returned
C14_Witness ==
    /\ pc = "returned"
    /\ ExtractionFailed
    /\ fs[pdf_path].kind = "missing"
    /\ result # <<>>
    /\ ~result[1].success

(***************************************************************************)
(* C15  In one run of process_document the text extraction is attempted    *)
(* exactly once; when it fails no later stage is called in that run        *)
(* (segmentation, classification, filename generation, export, summary)    *)
(* and the run writes no output file.                                      *)
(***************************************************************************)
LaterStages ==
    {"split_into_sentences", "process_sentences", "generate_output_filename",
     "export_to_excel", "create_summary_report"}

C15_SingleExtractionThenAbort ==
    /\ [](/\ Times("extract_text_from_pdf") <= 1
          /\ pc \notin {"process_document", "extract_text_from_pdf"} =>
                Times("extract_text_from_pdf") = 1
          /\ ExtractionFailed =>
                /\ \A i \in 1..Len(calls) : calls[i] \notin LaterStages
                /\ pc \in {"except", "returned"})
    /\ [][ExtractionFailed => files' = files]_vars

\* a run has failed at the extraction after an earlier run wrote its file
C15_Witness ==
    /\ pc = "returned"
    /\ ExtractionFailed
    /\ files # {}
    /\ calls = <<"process_document", "extract_text_from_pdf">>

(***************************************************************************)
(* C18  Whenever process_document returns a result with success = true,    *)
(* the stages were called in the order extraction, segmentation,           *)
(* classification, filename generation, export, summary, each exactly      *)
(* once, and the summary agrees with them: total_sentences is the number   *)
(* of sentences the segmenter returned, total_obligations the number of    *)
(* records handed to the export, excel_path the path the export returned.  *)
(***************************************************************************)
C18_SuccessAfterAllStagesInOrder ==
    result # <<>> /\ result[1].success =>
        /\ calls = <<"process_document", "extract_text_from_pdf",
                     "split_into_sentences", "process_sentences",
                     "generate_output_filename", "export_to_excel",
                     "create_summary_report">>
        /\ result[1].summary.total_sentences = Len(sentences)
        /\ result[1].summary.total_obligations = Len(rows)
        /\ result[1].obligations = filtered
        /\ result[1].excel_path = excel_path
        /\ result[1].summary.excel_output_path = excel_path
        /\ \E f \in files : f.path = excel_path /\ f.rows = rows

\* a successful run with more sentences than obligations
C18_Witness ==
    /\ pc = "returned"
    /\ result # <<>>
    /\ result[1].success
    /\ result[1].summary.total_sentences = 2
    /\ result[1].summary.total_obligations = 1

(***************************************************************************)
(* C19  Output filenames are unique: a run never gets from                 *)
(* generate_output_filename the path of a file that an earlier run wrote   *)
(* for the same source document into the same output directory, and so     *)
(* the export never replaces the file of an earlier run.                   *)
(***************************************************************************)
C19_DistinctOutputPaths ==
    [][/\ pc = "classified" /\ pc' = "export_to_excel" =>
             \A f \in files :
                f.source = pdf_path /\ f.directory = output_dir => f.path # output_path'
       /\ pc = "export_to_excel" /\ pc' = "create_summary_report" =>
             \A f \in files : f.path = output_path => f \in files']_vars

(***************************************************************************)
(* Rows of the exported table.                                             *)
(***************************************************************************)
\* the three decimal digits of a number below 1000
ThreeDigits(i) ==
    <<DigitChars[(i \div 100) + 1], DigitChars[((i \div 10) % 10) + 1],
      DigitChars[(i % 10) + 1]>>

(***************************************************************************)
(* C16  In every call of create_obligation_dataframe the i-th record, in   *)
(* input order, gets the identifier 'OBL-' followed by i in three digits   *)
(* with leading zeros; the identifiers of one call are pairwise distinct,  *)
(* and the numbering starts again at OBL-001 in every call, whatever was   *)
(* exported before.                                                        *)
(***************************************************************************)
C16_SequentialIdentifiers ==
    pc = "created" =>
        /\ Len(rows) = Len(obligations)
        /\ \A i \in 1..Len(rows) :
              /\ rows[i].ID = <<"O","B","L","-">> \o ThreeDigits(i)
              /\ rows[i].ObligationText = obligations[i].text
        /\ \A i, j \in 1..Len(rows) : i # j => rows[i].ID # rows[j].ID
        /\ rows # <<>> => rows[1].ID = <<"O","B","L","-","0","0","1">>

\* a second call, of ten records or more
C16_Witness ==
    /\ pc = "created"
    /\ Len(calls) = 2
    /\ Len(rows) >= 10
    /\ rows[10].ID = <<"O","B","L","-","0","1","0">>

(***************************************************************************)
(* C17  (as stated) every exported row carries Owner, Next Due Date and    *)
(* Status, whose values the caller of the export can set: the value the    *)
(* caller gave with the record, and 'Not Started' when the caller gave     *)
(* none.                                                                   *)
(***************************************************************************)
SetByCaller(record, column) ==
    IF column \in DOMAIN record THEN record[column]
    ELSE <<"N","o","t"," ","S","t","a","r","t","e","d">>

C17_CallerSetDefaults ==
    pc = "created" =>
        \A i \in 1..Len(rows) :
           /\ rows[i].Owner = SetByCaller(obligations[i], "Owner")
           /\ rows[i].NextDueDate = SetByCaller(obligations[i], "NextDueDate")
           /\ rows[i].Status = SetByCaller(obligations[i], "Status")

(***************************************************************************)
(* C17  (amended) every exported row carries Owner, Next Due Date and      *)
(* Status, each always the constant 'Not Started': the caller of the       *)
(* export has no way to set them, a value given with the record is         *)
(* ignored, and they are not computed from the text or the keywords.       *)
(***************************************************************************)
C17_AlwaysNotStarted ==
    pc = "created" =>
        \A i \in 1..Len(rows) :
           /\ {"Owner", "NextDueDate", "Status"} \subseteq DOMAIN rows[i]
           /\ rows[i].Owner = <<"N","o","t"," ","S","t","a","r","t","e","d">>
           /\ rows[i].NextDueDate = <<"N","o","t"," ","S","t","a","r","t","e","d">>
           /\ rows[i].Status = <<"N","o","t"," ","S","t","a","r","t","e","d">>

\* a record that came with an Owner of its own was exported
C17_Witness ==
    /\ pc = "created"
    /\ \E i \in 1..Len(rows) :
          /\ "Owner" \in DOMAIN obligations[i]
          /\ rows[i].Owner # obligations[i].Owner

(***************************************************************************)
(* C21  Segmentation is stable on its own output: for every sentence s     *)
(* that split_into_sentences returns, split_into_sentences(s) is the       *)
(* one-element sequence <<s>>: s is not split again, not shortened and     *)
(* not dropped.                                                            *)
(***************************************************************************)
C21_StableOnOwnOutput ==
    pc = "segmented" =>
        \A i \in 1..Len(sentences) :
           split_into_sentences(sentences[i]) = <<sentences[i]>>

\* a returned sentence that holds a terminal mark and a space after it, and
\* is returned whole when it is segmented again
C21_Witness ==
    /\ pc = "segmented"
    /\ \E i \in 1..Len(sentences) :
          /\ \E k \in 1..(Len(sentences[i]) - 1) :
                sentences[i][k] \in TerminalMarks /\ sentences[i][k + 1] = " "
          /\ split_into_sentences(sentences[i]) = <<sentences[i]>>


=============================================================================
